---- MODULE Spec2Model ----
(***************************************************************************)
(* Model of the chat gateway of src/ccli.py: the ConnectionManager, the    *)
(* chat_clients registry, ChatbotClient (initialize / get_response /       *)
(* close), the WebSocket endpoint and the three HTTP endpoints.            *)
(*                                                                         *)
(* The program runs on one asyncio event loop: a coroutine runs without    *)
(* interruption from one `await` that suspends to the next.  Every action  *)
(* below is one such segment of one task: it starts where the task was     *)
(* suspended and runs the code up to the next suspending await.            *)
(***************************************************************************)
EXTENDS Naturals, Sequences, FiniteSets, TLC

\* ----------------------------------------------------------------- bounds
NumTasks == 2        \* endpoint invocations (connections, requests) alive at once
NumIds == 2          \* distinct client identifiers
MaxStarts == 2       \* endpoint invocations in a run
\* Runs of scope "lifecycle" construct any number of clients and keep the
\* conversations short; runs of scope "session" follow longer conversations, on
\* one identifier and a bounded number of clients.
LifeFrames == 1      \* inbound frames read on one WebSocket connection
LifeHist == 2        \* no call of get_response is started that would pass this length
SessionFrames == 2
SessionHist == 4
SessionClients == 1  \* clients constructed while one is registered or held

None == 0
Tasks == 1..NumTasks
Ids == 1..NumIds
Refs == 1..(NumIds + 2 * NumTasks)  \* references to ChatbotClient objects
Msgs == {"m1", "m2"}            \* user texts
Answers == {"a1", "a2"}         \* answers of the agent
Causes == {"boom"}              \* str(e) of a failing agent call

\* ------------------------------------------------------- program constants
DefaultPrompt == "default"      \* config.default_system_prompt
FetchedPrompt == "fetched"      \* base_prompt[0].content
Separator == "\n\nUser Query: "
Welcome == "Hello! I'm your assistant with access to HEDIS information, calculation tools, and more. How can I help you today?"
NotInitialized == "Error: Agent not initialized. Please try again."
InitFailed == "Failed to initialize chatbot client"

VARIABLES
    active_connections,   \* manager.active_connections: id -> websocket (its task) or None
    chat_clients,         \* chat_clients: id -> ChatbotClient (a reference) or None
    clients,              \* the ChatbotClient objects, by reference
    tasks,                \* one record per endpoint invocation: its locals and position
    sockets,              \* one WebSocket per task: peer state and frames sent on it
    first_returned,       \* history: per id, whether get_chat_client has returned a
                          \* client since the last cleanup_chat_client of the id
                          \* ("none" if not) and whether the registry still holds the
                          \* first one returned ("kept") or another ("lost")
    client_id,            \* the identifier the peer served by each task slot uses
    server_prompt,        \* whether the tool server serves "base-system-prompt"
    started,              \* the number of endpoint invocations so far
    scope                 \* which limits bound the run: "lifecycle" or "session"

vars == <<active_connections, chat_clients, clients, tasks, sockets, first_returned,
          client_id, server_prompt, started, scope>>

\* the limits of the run
MaxFrames == IF scope = "session" THEN SessionFrames ELSE LifeFrames
MaxHist == IF scope = "session" THEN SessionHist ELSE LifeHist
MsgsIn == IF scope = "session" THEN Msgs ELSE {"m1"}
AnswersIn == IF scope = "session" THEN Answers ELSE {"a1"}

\* The state as one record, so that a segment of code is a function on states.
Cur == [ac |-> active_connections, cc |-> chat_clients, cl |-> clients,
        tk |-> tasks, sk |-> sockets, fr |-> first_returned, n |-> started]

NoResult == [status |-> 0, kind |-> "none", text |-> "", history |-> <<>>]

NewTask ==
    [kind |-> "none", id |-> None, pc |-> "idle", client |-> None,
     closing |-> None, handler |-> "none", active |-> FALSE,
     user_message |-> "", full_prompt |-> <<>>, nframes |-> 0,
     result |-> NoResult]

NewSocket == [peer |-> "none", out |-> <<>>]

\* a reference that names no object
NoClient ==
    [live |-> FALSE, agent |-> FALSE, mcp_client |-> "none", system_prompt |-> "",
     chat_history |-> <<>>, close_calls |-> 0, dirty |-> FALSE, log |-> <<>>]

\* ChatbotClient.__init__
ChatbotClient_init ==
    [NoClient EXCEPT !.live = TRUE, !.system_prompt = DefaultPrompt]

\* The places that hold a reference to a ChatbotClient, in a fixed order: the
\* registry, then each task's `client` and the `client` of its cleanup_chat_client.
Roots(st) ==
    [i \in 1..NumIds |-> st.cc[i]]
    \o [j \in 1..(2 * NumTasks) |->
          IF j % 2 = 1 THEN st.tk[(j + 1) \div 2].client ELSE st.tk[j \div 2].closing]

\* the distinct references among roots[i..], after those of acc, in that order
RECURSIVE Order(_, _, _)
Order(roots, i, acc) ==
    IF i > Len(roots) THEN acc
    ELSE Order(roots, i + 1,
               IF roots[i] = None \/ \E j \in 1..Len(acc) : acc[j] = roots[i]
               THEN acc ELSE Append(acc, roots[i]))

\* References are opaque names: objects no place refers to are reclaimed, and the
\* others are renamed in the order of the places that refer to them, so that states
\* which differ only in the names are one state.
Renamed(ord, s) == IF s = None THEN None ELSE CHOOSE n \in 1..Len(ord) : ord[n] = s

Become(reached) ==
    \E st \in {reached} : \E ord \in {Order(Roots(st), 1, <<>>)} :
       /\ active_connections' = st.ac
       /\ chat_clients' = [k \in Ids |-> Renamed(ord, st.cc[k])]
       /\ clients' = [n \in Refs |-> IF n <= Len(ord) THEN st.cl[ord[n]] ELSE NoClient]
       /\ tasks' = [t \in Tasks |-> [st.tk[t] EXCEPT !.client = Renamed(ord, @),
                                                    !.closing = Renamed(ord, @)]]
       /\ sockets' = st.sk
       /\ first_returned' = st.fr
       /\ started' = st.n
       /\ UNCHANGED <<client_id, server_prompt, scope>>

\* the reference a newly constructed object gets
NewRef(st) == CHOOSE s \in Refs : ~st.cl[s].live /\ \A r \in 1..(s - 1) : st.cl[r].live

\* the task is past get_chat_client and holds what it returned
Holds(tk) == tk.client # None /\ tk.pc \notin {"aenter", "get_prompt"}

\* calls of get_response suspended in the agent call on object s
InFlight(st, s) == Cardinality({t \in Tasks : st.tk[t].pc = "ainvoke" /\ st.tk[t].client = s})

Entry(role, content) == [role |-> role, content |-> content]
Frame_FromUser(message) == [message |-> message, sender |-> "user"]
Frame(message) == [message |-> message, sender |-> "bot"]

\* the error text without the cause
ErrorMessage_NoCause(e) == "Error processing your request"

\* f"Error processing your request: {str(e)}"
ErrorMessage(e) == "Error processing your request: " \o e

\* a prompt composed without the system prompt
FullPrompt_UserOnly(system_prompt, user_input) == <<"", Separator, user_input>>

\* self.system_prompt + "\n\nUser Query: " + user_input
FullPrompt(system_prompt, user_input) == <<system_prompt, Separator, user_input>>

\* ------------------------------------------------------ ConnectionManager

\* a connect that keeps the channel an identifier already has
manager_connect_KeepFirst(st, w, k) ==
    IF st.ac[k] = None THEN [st EXCEPT !.ac[k] = w] ELSE st

\* manager.connect after websocket.accept() has returned
manager_connect(st, w, k) == [st EXCEPT !.ac[k] = w]

\* a disconnect that empties the dictionary
manager_disconnect_Clear(st, k) == [st EXCEPT !.ac = [i \in Ids |-> None]]

\* manager.disconnect
manager_disconnect(st, k) ==
    IF st.ac[k] # None THEN [st EXCEPT !.ac[k] = None] ELSE st

\* a send_message that delivers nothing
\* a push that writes the frame to every open socket
manager_send_message_Broadcast(st, message, k) ==
    {[st |-> [st EXCEPT !.sk = [w \in Tasks |->
                  IF st.sk[w].peer = "open"
                  THEN [st.sk[w] EXCEPT !.out = Append(@, Frame(message))]
                  ELSE st.sk[w]]],
      raised |-> FALSE]}

manager_send_message_Dropped(st, message, k) == {[st |-> st, raised |-> FALSE]}

\* a send_message that indexes active_connections without the membership test
manager_send_message_Unchecked(st, message, k) ==
    IF st.ac[k] # None /\ st.sk[st.ac[k]].peer = "open"
    THEN {[st |-> [st EXCEPT !.sk[st.ac[k]].out = Append(@, Frame(message))],
           raised |-> FALSE]}
    ELSE {[st |-> st, raised |-> TRUE]}

\* manager.send_message: the set of outcomes, each [st, raised].  Sending on a
\* socket whose peer has gone either raises or is dropped by the server.
manager_send_message(st, message, k) ==
    IF st.ac[k] # None
    THEN LET w == st.ac[k] IN
         IF st.sk[w].peer = "open"
         THEN {[st |-> [st EXCEPT !.sk[w].out = Append(@, Frame(message))],
                raised |-> FALSE]}
         ELSE {[st |-> st, raised |-> TRUE], [st |-> st, raised |-> FALSE]}
    ELSE {[st |-> st, raised |-> FALSE]}

\* ------------------------------------------------- cleanup_chat_client

\* a cleanup after which the loop waits for a frame again
cleanup_chat_client_Resuming(st, t) == [st EXCEPT !.tk[t].pc = "receive"]

\* cleanup_chat_client up to `await client.close()`
cleanup_chat_client(st, t) ==
    LET k == st.tk[t].id
        s == st.cc[k]
        st1 == [st EXCEPT !.fr[k] = "none"]
    IN  IF s # None
        THEN [st1 EXCEPT !.tk[t].pc = "close", !.tk[t].closing = s,
                         !.cl[s].close_calls = @ + 1]
        ELSE [st1 EXCEPT !.tk[t].pc = "done"]

\* the except clauses of websocket_endpoint: manager.disconnect(client_id),
\* then cleanup_chat_client(client_id); h is the clause
websocket_except(st, t, h) ==
    cleanup_chat_client(
        [manager_disconnect(st, st.tk[t].id) EXCEPT !.tk[t].handler = h,
                                                    !.tk[t].user_message = "",
                                                    !.tk[t].full_prompt = <<>>], t)

\* except clauses that leave the status code out
http_except_NoStatus(st, t, e) ==
    [st EXCEPT !.tk[t].pc = "done",
               !.tk[t].result = [status |-> 200, kind |-> "error", text |-> e,
                                 history |-> <<>>]]

\* the except clauses of the HTTP endpoints
http_except(st, t, e) ==
    LET kind == st.tk[t].kind IN
    [st EXCEPT !.tk[t].pc = "done",
               !.tk[t].result =
                   IF kind = "history"
                   THEN [status |-> 200, kind |-> "history", text |-> "", history |-> <<>>]
                   ELSE [status |-> 500, kind |-> "error", text |-> e, history |-> <<>>]]

\* an exception leaving get_chat_client, caught by the endpoint that called it
endpoint_except(st, t, e) ==
    IF st.tk[t].kind = "ws" THEN websocket_except(st, t, "outer")
    ELSE http_except(st, t, e)

\* --------------------------------------------------------- get_response

\* what the endpoint does with the text get_response returned
get_response_return(st, t, text) ==
    IF st.tk[t].kind = "ws"
    THEN LET k == st.tk[t].id IN
         { IF o.raised
           THEN websocket_except(o.st, t, h)
           ELSE [o.st EXCEPT !.tk[t].pc = "receive"]
           : o \in manager_send_message(st, text, k), h \in {"inner", "outer"} }
    ELSE {[st EXCEPT !.tk[t].pc = "done",
                     !.tk[t].result = [status |-> 200, kind |-> "response",
                                       text |-> text, history |-> <<>>]]}

\* a get_response that records no user entry
UserEntry_Omitted(user_input) == <<>>

\* the user entry get_response appends before the agent call
UserEntry(user_input) == <<Entry("user", user_input)>>

\* a get_response that starts the history anew with each user entry
get_response_Restarting(st, t, user_input) ==
    LET s == st.tk[t].client IN
    {[st EXCEPT !.cl[s].chat_history = UserEntry(user_input),
                !.cl[s].dirty = TRUE,
                !.cl[s].log = <<>>,
                !.tk[t].user_message = user_input,
                !.tk[t].full_prompt = FullPrompt(st.cl[s].system_prompt, user_input),
                !.tk[t].pc = "ainvoke"]}

\* ChatbotClient.get_response up to `await self.agent.ainvoke(...)`
get_response(st, t, user_input) ==
    LET s == st.tk[t].client
        overlap == InFlight(st, s) > 0
    IN  IF ~st.cl[s].agent
        THEN get_response_return(st, t, NotInitialized)
        ELSE {[st EXCEPT !.cl[s].chat_history = @ \o UserEntry(user_input),
                         !.cl[s].dirty = @ \/ overlap,
                         !.cl[s].log = IF st.cl[s].dirty \/ overlap THEN <<>> ELSE @,
                         !.tk[t].user_message = user_input,
                         !.tk[t].full_prompt = FullPrompt(st.cl[s].system_prompt, user_input),
                         !.tk[t].pc = "ainvoke"]}

\* what get_response returns: the agent's last message, or the error message
ResponseText(ok, text) == IF ok THEN text ELSE ErrorMessage(text)

\* a get_response that records nothing when the agent call has raised
ReplyEntry_NoneOnFailure(ok, text) ==
    IF ok THEN <<Entry("assistant", text)>> ELSE <<>>

\* the entry get_response appends when the agent call has returned or raised
ReplyEntry(ok, text) == <<Entry("assistant", ResponseText(ok, text))>>

\* ChatbotClient.get_response after the agent call
get_response_resume(st, t, ok, text) ==
    LET s == st.tk[t].client
        reply == ReplyEntry(ok, text)
        clean == ok /\ ~st.cl[s].dirty
        st1 == [st EXCEPT !.cl[s].chat_history = @ \o reply,
                          !.cl[s].dirty = ~clean,
                          !.cl[s].log = IF clean
                                        THEN Append(@, <<st.tk[t].user_message, text>>)
                                        ELSE <<>>,
                          !.tk[t].user_message = "",
                          !.tk[t].full_prompt = <<>>]
    IN  get_response_return(st1, t, ResponseText(ok, text))

\* a reset that empties the history of every client
reset_history_All(st, s) ==
    [st EXCEPT !.cl = [o \in Refs |->
                          IF st.cl[o].live
                          THEN [st.cl[o] EXCEPT !.chat_history = <<>>,
                                                !.dirty = InFlight(st, o) > 0,
                                                !.log = <<>>]
                          ELSE st.cl[o]]]

\* a reset that puts the client back to its state after __init__
reset_history_Reconstructed(st, s) ==
    [st EXCEPT !.cl[s] = [ChatbotClient_init EXCEPT !.dirty = InFlight(st, s) > 0]]

\* reset_chat: `client.chat_history = []`
reset_history(st, s) ==
    [st EXCEPT !.cl[s].chat_history = <<>>,
               !.cl[s].dirty = InFlight(st, s) > 0,
               !.cl[s].log = <<>>]

\* ------------------------------------------------------ get_chat_client

\* what each endpoint does once get_chat_client has returned
after_get_chat_client(st, t, m) ==
    LET k == st.tk[t].id
        s == st.tk[t].client
        kind == st.tk[t].kind
    IN  CASE kind = "ws" ->
               { IF o.raised
                 THEN websocket_except(o.st, t, "outer")
                 ELSE [o.st EXCEPT !.tk[t].pc = "receive", !.tk[t].active = TRUE]
                 : o \in manager_send_message(st, Welcome, k) }
          [] kind = "send" -> get_response(st, t, m)
          [] kind = "history" ->
               {[st EXCEPT !.tk[t].pc = "done",
                           !.tk[t].result = [status |-> 200, kind |-> "history", text |-> "",
                                             history |-> st.cl[s].chat_history]]}
          [] kind = "reset" ->
               {[reset_history(st, s) EXCEPT
                           !.tk[t].pc = "done",
                           !.tk[t].result = [status |-> 200, kind |-> "success",
                                             text |-> "Chat history reset",
                                             history |-> <<>>]]}

\* `return chat_clients[client_id]`
get_chat_client_return(st, t) ==
    LET k == st.tk[t].id
        s == st.cc[k]
    IN  [st EXCEPT !.tk[t].client = s,
                   !.tk[t].user_message = "",
                   !.fr[k] = IF @ = "none" THEN "kept" ELSE @]

\* whether get_chat_client constructs: `client_id not in chat_clients`
MustConstruct(st, k) == st.cc[k] = None

\* get_chat_client up to `await client.initialize()`, or to its return when the
\* registry has the id
get_chat_client(st, t, m) ==
    LET k == st.tk[t].id IN
    IF MustConstruct(st, k)
    THEN { [st EXCEPT !.cl[NewRef(st)] = ChatbotClient_init,
                      !.tk[t].client = NewRef(st),
                      !.tk[t].user_message = m,
                      !.tk[t].pc = "aenter"],
           endpoint_except(st, t, "ConfigError") }
    ELSE after_get_chat_client(get_chat_client_return(st, t), t, m)

\* whether get_chat_client stores the client it constructed: `initialized`
\* a registry that stores the client whatever initialize() returned
StoreClient_Always(initialized) == TRUE

StoreClient(initialized) == initialized

\* get_chat_client after `await client.initialize()` has returned
get_chat_client_resume(st, t, initialized) ==
    LET k == st.tk[t].id
        s == st.tk[t].client
    IN  IF StoreClient(initialized)
        THEN after_get_chat_client(
                 get_chat_client_return(
                     [st EXCEPT !.cc[k] = s,
                                !.fr[k] = IF st.cc[k] # None /\ @ = "kept" THEN "lost" ELSE @],
                     t),
                 t, st.tk[t].user_message)
        ELSE {endpoint_except([st EXCEPT !.tk[t].client = None,
                                         !.tk[t].user_message = ""], t, InitFailed)}

\* ------------------------------------------------------------- actions

Free(t) == tasks[t].kind = "none" /\ started < MaxStarts

\* no call is started that would take the history past MaxHist
CanCall(st, s) == Len(st.cl[s].chat_history) + InFlight(st, s) + 2 <= MaxHist

\* in scope "session" no client is constructed beside SessionClients live ones
CanConstruct ==
    scope = "session" => Cardinality({s \in Refs : clients[s].live}) < SessionClients

\* get_chat_client may be entered for identifier k
CanEnter(k) == chat_clients[k] = None => CanConstruct

\* a client opens a WebSocket to /ws/{client_id}
WsStart(t) ==
    /\ Free(t)
    /\ Become([Cur EXCEPT !.n = @ + 1,
                          !.tk[t].kind = "ws", !.tk[t].id = client_id[t],
                          !.tk[t].pc = "accept", !.sk[t].peer = "open"])

\* `await websocket.accept()` returns
WsAccept(t) ==
    /\ tasks[t].pc = "accept"
    /\ CanEnter(tasks[t].id)
    /\ \E st \in get_chat_client(manager_connect(Cur, t, tasks[t].id), t, "") :
           Become(st)

\* `await websocket.accept()` raises
WsAcceptError(t) ==
    /\ tasks[t].pc = "accept"
    /\ Become(websocket_except([Cur EXCEPT !.sk[t].peer = "closed"], t, "outer"))

\* a request to /api/send_message, /api/history or /api/reset from host k
HttpStart(t, kind, m) ==
    /\ Free(t)
    /\ CanEnter(client_id[t])
    /\ kind = "send" /\ chat_clients[client_id[t]] # None
           => CanCall(Cur, chat_clients[client_id[t]])
    /\ IF kind = "send" THEN m \in MsgsIn ELSE m = ""
    /\ \E st \in get_chat_client(
                    [Cur EXCEPT !.n = @ + 1,
                                !.tk[t].kind = kind, !.tk[t].id = client_id[t]], t, m) :
           Become(st)

\* initialize(): `await self.mcp_client.__aenter__()` raises
InitAenterError(t) ==
    /\ tasks[t].pc = "aenter"
    /\ \E st \in get_chat_client_resume(Cur, t, FALSE) : Become(st)

\* initialize(): `await self.mcp_client.__aenter__()` returns, create_react_agent
\* raises
initialize_agent_raises(st, t) ==
    get_chat_client_resume(
        [st EXCEPT !.cl[st.tk[t].client].mcp_client = "open"], t, FALSE)

InitAgentError(t) ==
    /\ tasks[t].pc = "aenter"
    /\ \E st \in initialize_agent_raises(Cur, t) : Become(st)

\* initialize(): `await self.mcp_client.__aenter__()` returns, the agent is created
InitAenter(t) ==
    /\ tasks[t].pc = "aenter"
    /\ Become([Cur EXCEPT !.cl[tasks[t].client].mcp_client = "open",
                          !.cl[tasks[t].client].agent = TRUE,
                          !.tk[t].pc = "get_prompt"])

\* a prompt that is emptied when the fetch gives nothing
PromptAfter_Cleared(current, r) == IF r = "fetched" THEN FetchedPrompt ELSE ""

\* the system prompt after get_prompt: r is what the call gave
PromptAfter(current, r) == IF r = "fetched" THEN FetchedPrompt ELSE current

\* initialize(): `await self.mcp_client.get_prompt(...)` returns or raises
InitPrompt(t, r) ==
    /\ tasks[t].pc = "get_prompt"
    /\ r = "fetched" <=> server_prompt = "fetched"
    /\ \E st \in get_chat_client_resume(
                    [Cur EXCEPT !.cl[tasks[t].client].system_prompt = PromptAfter(@, r)],
                    t, TRUE) :
           Become(st)

\* `await websocket.receive_json()` returns a frame
WsReceive(t, m) ==
    /\ tasks[t].pc = "receive"
    /\ m \in MsgsIn
    /\ sockets[t].peer = "open"
    /\ tasks[t].nframes < MaxFrames
    /\ CanCall(Cur, tasks[t].client)
    /\ \E st \in get_response([Cur EXCEPT !.tk[t].nframes = @ + 1], t, m) :
           Become(st)

\* `await websocket.receive_json()` raises WebSocketDisconnect
WsDisconnect(t) ==
    /\ tasks[t].pc = "receive"
    /\ Become(websocket_except([Cur EXCEPT !.sk[t].peer = "closed"], t, "inner"))

\* `await websocket.receive_json()` raises another exception (a malformed frame)
WsReceiveError(t) ==
    /\ tasks[t].pc = "receive"
    /\ sockets[t].peer = "open"
    /\ Become(websocket_except(Cur, t, "outer"))

\* the peer goes away while the task is suspended outside receive_json
PeerClose(t) ==
    /\ tasks[t].kind = "ws"
    /\ tasks[t].pc \in {"aenter", "get_prompt", "ainvoke"}
    /\ sockets[t].peer = "open"
    /\ Become([Cur EXCEPT !.sk[t].peer = "closed"])

\* `await self.agent.ainvoke(...)` returns an answer
AinvokeReturn(t, a) ==
    /\ tasks[t].pc = "ainvoke"
    /\ a \in AnswersIn
    /\ \E st \in get_response_resume(Cur, t, TRUE, a) : Become(st)

\* `await self.agent.ainvoke(...)` raises
AinvokeRaise(t, e) ==
    /\ tasks[t].pc = "ainvoke"
    /\ \E st \in get_response_resume(Cur, t, FALSE, e) : Become(st)

\* whether `del chat_clients[client_id]` raises KeyError
KeyMissing(st, k) == st.cc[k] = None

\* cleanup_chat_client after `await client.close()`: close() has swallowed any
\* error of __aexit__; then `del chat_clients[client_id]`
CloseReturn(t, closed) ==
    /\ tasks[t].pc = "close"
    /\ LET k == tasks[t].id
           s == tasks[t].closing
           st1 == [Cur EXCEPT !.cl[s].mcp_client = IF closed THEN "closed" ELSE @,
                              !.tk[t].closing = None]
       IN  IF KeyMissing(st1, k)
           THEN IF tasks[t].handler = "inner"
                THEN Become(websocket_except(st1, t, "outer"))
                ELSE Become([st1 EXCEPT !.tk[t].pc = "done",
                                        !.tk[t].handler = "raised"])
           ELSE Become([st1 EXCEPT !.cc[k] = None, !.fr[k] = "none",
                                   !.tk[t].pc = "done"])

\* the endpoint has returned (or raised): the server drops the task and its socket
Finish(t) ==
    /\ tasks[t].pc = "done"
    /\ Become([Cur EXCEPT !.tk[t] = NewTask, !.sk[t] = NewSocket])

Start ==
    /\ active_connections = [k \in Ids |-> None]
    /\ chat_clients = [k \in Ids |-> None]
    /\ clients = [s \in Refs |-> NoClient]
    /\ tasks = [t \in Tasks |-> NewTask]
    /\ sockets = [t \in Tasks |-> NewSocket]
    /\ first_returned = [k \in Ids |-> "none"]
    /\ started = 0
    /\ server_prompt \in {"fetched", "none"}

\* the identifiers of the slots, up to renaming the identifiers
Casts ==
    {f \in [Tasks -> Ids] :
        \A t \in Tasks : f[t] <= 1 + Cardinality({f[u] : u \in 1..(t - 1)})}

Init ==
    /\ Start
    /\ scope = "lifecycle"
    /\ client_id \in Casts

InitSession ==
    /\ Start
    /\ scope = "session"
    /\ client_id = [t \in Tasks |-> 1]

Next ==
    \/ \E t \in Tasks : WsStart(t)
    \/ \E t \in Tasks : WsAccept(t)
    \/ \E t \in Tasks : WsAcceptError(t)
    \/ \E t \in Tasks, kind \in {"send", "history", "reset"}, m \in Msgs \cup {""} :
           HttpStart(t, kind, m)
    \/ \E t \in Tasks : InitAenterError(t)
    \/ \E t \in Tasks : InitAgentError(t)
    \/ \E t \in Tasks : InitAenter(t)
    \/ \E t \in Tasks, r \in {"fetched", "empty", "error"} : InitPrompt(t, r)
    \/ \E t \in Tasks, m \in Msgs : WsReceive(t, m)
    \/ \E t \in Tasks : WsDisconnect(t)
    \/ \E t \in Tasks : WsReceiveError(t)
    \/ \E t \in Tasks : PeerClose(t)
    \/ \E t \in Tasks, a \in Answers : AinvokeReturn(t, a)
    \/ \E t \in Tasks, e \in Causes : AinvokeRaise(t, e)
    \/ \E t \in Tasks, closed \in BOOLEAN : CloseReturn(t, closed)
    \/ \E t \in Tasks : Finish(t)

Spec == Init /\ [][Next]_vars

SpecSession == InitSession /\ [][Next]_vars

\* The event loop resumes a coroutine whose awaited call has completed: the
\* handshake, the calls to the tool server, the agent call and close() end, and
\* receive_json raises once the peer has gone.
Resumes(t) ==
    \/ WsAccept(t) \/ WsAcceptError(t)
    \/ InitAenterError(t) \/ InitAgentError(t) \/ InitAenter(t)
    \/ \E r \in {"fetched", "empty", "error"} : InitPrompt(t, r)
    \/ \E a \in Answers : AinvokeReturn(t, a)
    \/ \E e \in Causes : AinvokeRaise(t, e)
    \/ \E closed \in BOOLEAN : CloseReturn(t, closed)
    \/ sockets[t].peer = "closed" /\ WsDisconnect(t)

SpecLive == Init /\ [][Next]_vars /\ \A t \in Tasks : WF_vars(Resumes(t))

\* ============================================================== claims

\* the task is inside get_chat_client, suspended in client.initialize()
Constructing(t) == tasks[t].pc \in {"aenter", "get_prompt"}

\* C1: once get_chat_client(k) has returned a client, every later call for k
\* before cleanup_chat_client(k) returns that same object and constructs none:
\* the registry entry for k, which is what every call returns, is still the
\* first client returned since the last cleanup.
C1_SameSession == \A k \in Ids : first_returned[k] # "lost"

\* C2: when calls of get_chat_client for one identifier overlap, at most one
\* client is under construction for it: no two tasks with the same identifier
\* are both suspended in client.initialize().
C2_AtMostOneConstruction ==
    \A t, u \in Tasks :
        t # u /\ Constructing(t) /\ Constructing(u) => tasks[t].id # tasks[u].id

\* C3: when client.initialize() returns False, get_chat_client(k) raises and the
\* registry holds no entry for k afterwards: a step in which a task leaves
\* `await self.mcp_client.__aenter__()` without an agent ends with chat_clients[k]
\* empty.
C3_NoEntryAfterFailure ==
    [][\A t \in Tasks :
          tasks[t].pc = "aenter" /\ tasks'[t].pc \notin {"aenter", "get_prompt"}
              => chat_clients'[tasks[t].id] = None]_vars

\* the step ends the teardown of a connection that had been Active: its endpoint
\* returns from (or is left by) the except clause it ran
TeardownEnds(t) ==
    /\ tasks[t].kind = "ws" /\ tasks[t].active
    /\ tasks[t].pc # "done" /\ tasks'[t].pc = "done"

\* C4: a gateway loop that leaves Active runs manager.disconnect(id) and then
\* cleanup_chat_client(id), and when they have run neither active_connections
\* nor chat_clients holds an entry for id.
C4_NoEntriesAfterTeardown ==
    [][\A t \in Tasks :
          TeardownEnds(t) => /\ active_connections'[tasks[t].id] = None
                             /\ chat_clients'[tasks[t].id] = None]_vars

\* the step makes connection t Active: get_chat_client has returned its client
BecomesActive(t) == tasks[t].kind = "ws" /\ ~tasks[t].active /\ tasks'[t].active

\* C5: a connection accepted with identifier k after the peer of an earlier
\* connection with k has gone never receives the client object of the earlier
\* connection, also when the peer went while get_response was in flight: what
\* get_chat_client returns to it is held by no connection whose peer is gone.
C5_NewSessionAfterDisconnect ==
    [][\A t, u \in Tasks :
          /\ BecomesActive(t)
          /\ u # t /\ tasks[u].kind = "ws" /\ tasks[u].id = tasks[t].id
          /\ sockets[u].peer = "closed" /\ tasks[u].client # None
          => tasks'[t].client # tasks'[u].client]_vars

\* the history a Session has after the calls of log, each a pair of the user's
\* text and the agent's answer
Alternating(log) ==
    [i \in 1..(2 * Len(log)) |->
        IF i % 2 = 1 THEN [role |-> "user", content |-> log[(i + 1) \div 2][1]]
        ELSE [role |-> "assistant", content |-> log[i \div 2][2]]]

\* C6: a Session whose n calls of get_response since its construction or last
\* reset have all succeeded, none overlapping another, has a history of length
\* 2n that alternates user, assistant from user on, the i-th pair being the
\* i-th user text and the i-th answer.
C6_AlternatingHistory ==
    \A s \in Refs :
        clients[s].live /\ ~clients[s].dirty /\ InFlight(Cur, s) = 0
            => /\ Len(clients[s].chat_history) = 2 * Len(clients[s].log)
               /\ clients[s].chat_history = Alternating(clients[s].log)

\* two calls have succeeded on one Session, the second with another text
C6_Witness ==
    \E s \in Refs :
        /\ clients[s].live /\ ~clients[s].dirty /\ InFlight(Cur, s) = 0
        /\ Len(clients[s].log) = 2
        /\ clients[s].log[1][1] # clients[s].log[2][1]

\* C7: a failing agent call does not leave get_response as an exception: the
\* call returns the text "Error processing your request: <cause>" (the HTTP
\* endpoint answers 200 with it, the WebSocket loop pushes it and reads on), the
\* same text is appended to the history as an assistant entry, the registry is
\* unchanged and the agent of the Session is still there for later calls.
C7_ErrorReturnedAsText ==
    [][\A t \in Tasks, e \in Causes :
          AinvokeRaise(t, e) =>
              LET k == tasks[t].id
                  s == tasks[t].client
                  s2 == tasks'[t].client
                  text == "Error processing your request: " \o e
                  w == active_connections[k]
              IN  /\ clients'[s2].chat_history =
                         Append(clients[s].chat_history,
                                [role |-> "assistant", content |-> text])
                  /\ clients'[s2].agent
                  /\ (chat_clients[k] = s) <=> (chat_clients'[k] = s2)
                  /\ (chat_clients[k] = None) <=> (chat_clients'[k] = None)
                  /\ tasks[t].kind = "send" =>
                         /\ tasks'[t].pc = "done"
                         /\ tasks'[t].result.status = 200
                         /\ tasks'[t].result.text = text
                  /\ tasks[t].kind = "ws" /\ w # None /\ sockets[w].peer = "open" =>
                         /\ tasks'[t].pc = "receive"
                         /\ sockets'[w].out =
                                Append(sockets[w].out,
                                       [message |-> text, sender |-> "bot"])]_vars

\* a call has failed and a later call on the same Session has been answered
C7_Witness ==
    \E s \in Refs :
        LET h == clients[s].chat_history IN
        /\ chat_clients[1] = s /\ clients[s].agent
        /\ Len(h) = 4
        /\ h[1].role = "user"
        /\ h[2] = [role |-> "assistant",
                   content |-> "Error processing your request: boom"]
        /\ h[3].role = "user"
        /\ h[4].role = "assistant" /\ h[4].content \in Answers

\* the client whose get_response task t calls in the step
CalledClient(t) ==
    IF tasks[t].client # None THEN tasks[t].client ELSE chat_clients[client_id[t]]

\* C8 (as amended): a call of get_response that reaches the agent appends exactly
\* two entries whether the agent call succeeds or fails: the user entry before
\* the agent call, and after it one assistant entry, the reply or the error
\* message.
C8_TwoEntriesPerCall ==
    [][\A t \in Tasks :
          /\ tasks[t].pc # "ainvoke" /\ tasks'[t].pc = "ainvoke" =>
                 clients'[tasks'[t].client].chat_history =
                     Append(clients[CalledClient(t)].chat_history,
                            [role |-> "user", content |-> tasks'[t].user_message])
          /\ tasks[t].pc = "ainvoke" /\ tasks'[t].pc # "ainvoke" =>
                 \E text \in Answers \cup {"Error processing your request: " \o e :
                                             e \in Causes} :
                     clients'[tasks'[t].client].chat_history =
                         Append(clients[tasks[t].client].chat_history,
                                [role |-> "assistant", content |-> text])]_vars

\* the only call ever made on a Session has failed and left two entries
C8_Witness ==
    /\ started = 1
    /\ \E t \in Tasks :
          /\ tasks[t].kind = "send" /\ tasks[t].pc = "done"
          /\ tasks[t].result.text = "Error processing your request: boom"
          /\ clients[chat_clients[tasks[t].id]].chat_history =
                 <<[role |-> "user", content |-> "m1"],
                   [role |-> "assistant",
                    content |-> "Error processing your request: boom"]>>

\* C8 as stated: a call whose agent call fails appends exactly one entry.  When
\* the first request a server gets is a POST to /api/send_message and its agent
\* call fails, the history of the Session has one entry.
C8_OneEntryOnFailure ==
    \A t \in Tasks :
        /\ started = 1
        /\ tasks[t].kind = "send" /\ tasks[t].pc = "done"
        /\ tasks[t].result.text = "Error processing your request: boom"
        => Len(clients[chat_clients[tasks[t].id]].chat_history) = 1

\* C9: on one Session no get_response starts while another is suspended in the
\* agent call, so the history never has two consecutive entries of one role.
C9_OneCallAtATime ==
    \A s \in Refs :
        clients[s].live =>
            /\ InFlight(Cur, s) <= 1
            /\ \A i \in 1..(Len(clients[s].chat_history) - 1) :
                   clients[s].chat_history[i].role # clients[s].chat_history[i + 1].role

\* the bot frames sent on the socket of connection t after the welcome
BotFrames(t) == SelectSeq(sockets[t].out, LAMBDA f : f.message # Welcome)

\* C10 as stated: within one connection there is exactly one bot frame per
\* inbound frame: a connection whose peer is there and which waits for the next
\* inbound frame has got as many bot frames as it has sent frames.
C10_OneFramePerInbound ==
    \A t \in Tasks :
        tasks[t].kind = "ws" /\ tasks[t].pc = "receive" /\ sockets[t].peer = "open"
            => Len(BotFrames(t)) = tasks[t].nframes

\* C10 (as amended): the loop reads an inbound frame only while it waits in
\* receive_json, and then calls get_response; when get_response has returned it
\* calls manager.send_message once with the response before it reads again.  The
\* one frame goes to the socket registered under the identifier at that time,
\* and no frame is sent when none is registered.
C10_OnePushPerInbound ==
    [][\A t \in Tasks :
          /\ tasks[t].kind = "ws" /\ tasks'[t].kind = "ws"
             /\ tasks'[t].nframes # tasks[t].nframes =>
                 /\ tasks[t].pc = "receive" /\ tasks'[t].pc = "ainvoke"
                 /\ tasks'[t].nframes = tasks[t].nframes + 1
                 /\ sockets' = sockets
          /\ tasks[t].kind = "ws" /\ tasks[t].pc = "ainvoke"
             /\ tasks'[t].pc # "ainvoke" =>
                 LET w == active_connections[tasks[t].id]
                     h == clients'[tasks'[t].client].chat_history
                 IN  IF w # None /\ sockets[w].peer = "open"
                     THEN /\ tasks'[t].pc = "receive"
                          /\ sockets' = [sockets EXCEPT ![w].out =
                                 Append(@, [message |-> h[Len(h)].content,
                                            sender |-> "bot"])]
                     ELSE sockets' = sockets]_vars

\* a connection has sent one frame and got the welcome and the answer
C10_Witness ==
    \E t \in Tasks :
        /\ tasks[t].kind = "ws" /\ tasks[t].pc = "receive" /\ tasks[t].nframes = 1
        /\ sockets[t].out = <<[message |-> Welcome, sender |-> "bot"],
                              [message |-> "a1", sender |-> "bot"]>>

\* C11: manager.send_message(message, id) for an id with no registered channel
\* does not raise and changes nothing: in every reachable state, for every such
\* id and every text, its only outcome is the same state, not raised.
C11_PushToAbsentIsNoOp ==
    \A k \in Ids, message \in Answers \cup {Welcome} :
        active_connections[k] = None =>
            manager_send_message(Cur, message, k) = {[st |-> Cur, raised |-> FALSE]}

\* a connection has sent a frame, its registration was gone when the reply was
\* pushed, and it waits for the next frame with no reply on its socket
C11_Witness ==
    \E t \in Tasks :
        /\ tasks[t].kind = "ws" /\ tasks[t].pc = "receive" /\ tasks[t].nframes = 1
        /\ active_connections[tasks[t].id] = None
        /\ sockets[t].peer = "open" /\ Len(BotFrames(t)) = 0
        /\ Len(clients[tasks[t].client].chat_history) = 2

\* the system prompt a client has once initialize() has returned True
PromptOfRun == IF server_prompt = "fetched" THEN FetchedPrompt ELSE DefaultPrompt

\* C12: resetting a Session empties its history and changes neither its agent
\* nor its system prompt nor anything else, resetting again changes nothing
\* more, and every get_response, also one after a reset, composes its prompt
\* from the system prompt the Session got when it was initialized.
C12_ResetKeepsSession ==
    /\ \A s \in Refs :
          clients[s].live /\ (\E k \in Ids : chat_clients[k] = s) =>
              LET r == reset_history(Cur, s) IN
              /\ r.cl[s].chat_history = <<>>
              /\ r.cl[s].agent = clients[s].agent
              /\ r.cl[s].system_prompt = clients[s].system_prompt
              /\ r.cl[s].mcp_client = clients[s].mcp_client
              /\ \A o \in Refs \ {s} : r.cl[o] = clients[o]
              /\ r.cc = chat_clients /\ r.ac = active_connections
              /\ r.tk = tasks /\ r.sk = sockets
              /\ reset_history(r, s) = r
    /\ \A t \in Tasks :
          tasks[t].pc = "ainvoke" =>
              /\ clients[tasks[t].client].system_prompt = PromptOfRun
              /\ tasks[t].full_prompt =
                     <<PromptOfRun, "\n\nUser Query: ", tasks[t].user_message>>

\* a connection's first frame was answered, the history was then reset, and the
\* call for its second frame is in flight, its prompt made of the fetched prompt
C12_Witness ==
    \E t, u \in Tasks :
        /\ tasks[t].kind = "ws" /\ tasks[t].pc = "ainvoke" /\ tasks[t].nframes = 2
        /\ tasks[u].kind = "reset" /\ tasks[u].pc = "done"
        /\ tasks[u].result.status = 200
        /\ clients[tasks[t].client].chat_history =
               <<[role |-> "user", content |-> tasks[t].user_message]>>
        /\ tasks[t].full_prompt[1] = FetchedPrompt

\* manager.disconnect(k) removes the entry of k and only that, and is a no-op
\* when there is none; cleanup_chat_client(k), called for a k the registry does
\* not have, returns at once and leaves every dictionary, client and socket as
\* it was
AbsentIsNoOp ==
    /\ \A k \in Ids :
          LET r == manager_disconnect(Cur, k) IN
          /\ r.ac[k] = None
          /\ \A i \in Ids \ {k} : r.ac[i] = active_connections[i]
          /\ [r EXCEPT !.ac = active_connections] = Cur
          /\ active_connections[k] = None => r = Cur
          /\ manager_disconnect(r, k) = r
    /\ \A t \in Tasks :
          tasks[t].kind = "ws" /\ chat_clients[tasks[t].id] = None =>
              LET r == cleanup_chat_client(Cur, t) IN
              /\ r.tk[t].pc = "done"
              /\ r.cc = chat_clients /\ r.cl = clients
              /\ r.ac = active_connections /\ r.sk = sockets

\* C13: manager.disconnect(id) and cleanup_chat_client(id) are idempotent when
\* called one after the other: on an absent id each is a no-op that does not
\* raise, and a call of cleanup_chat_client that has run to its end has removed
\* the entry, so that the next call finds the id absent.
C13_SequentialIdempotence ==
    [][/\ AbsentIsNoOp /\ AbsentIsNoOp'
       /\ \A t \in Tasks :
             /\ tasks[t].pc = "close" /\ tasks'[t].pc = "done"
             /\ tasks'[t].handler # "raised"
             => chat_clients'[tasks[t].id] = None]_vars

\* a connection whose Session could not be created has run disconnect and
\* cleanup_chat_client for an id the registry does not have, and has ended
C13_Witness ==
    \E t \in Tasks :
        /\ tasks[t].kind = "ws" /\ tasks[t].pc = "done" /\ ~tasks[t].active
        /\ tasks[t].handler = "outer"
        /\ chat_clients[tasks[t].id] = None
        /\ active_connections[tasks[t].id] = None
        /\ \A s \in Refs : clients[s].close_calls = 0

\* active_connections maps an identifier to at most one socket; connect(w, k)
\* makes w the socket of k, whatever k had, closes no socket and changes nothing
\* else; send_message(_, k) then changes no socket but w, and delivers on w
\* when its peer is there
ConnectReplaces ==
    /\ active_connections \in [Ids -> Tasks \cup {None}]
    /\ \A k \in Ids, w \in Tasks :
          LET r == manager_connect(Cur, w, k) IN
          /\ r.ac[k] = w
          /\ \A i \in Ids \ {k} : r.ac[i] = active_connections[i]
          /\ r.sk = sockets /\ r.cc = chat_clients /\ r.cl = clients /\ r.tk = tasks
          /\ \A o \in manager_send_message(r, "a1", k) :
                /\ \A u \in Tasks \ {w} : o.st.sk[u] = sockets[u]
                /\ o.st.ac = r.ac
                /\ sockets[w].peer = "open" =>
                       /\ ~o.raised
                       /\ o.st.sk[w].out =
                              Append(sockets[w].out,
                                     [message |-> "a1", sender |-> "bot"])

\* C14: active_connections holds at most one channel per identifier;
\* manager.connect(ws2, id) replaces the entry of id by ws2 without closing the
\* socket it had, and send_message(_, id) then delivers only on ws2: in every
\* step a frame is added only to a socket that is the registered one of an
\* identifier before or after the step.
C14_LastConnectWins ==
    [][/\ ConnectReplaces /\ ConnectReplaces'
       /\ \A w \in Tasks :
             Len(sockets'[w].out) > Len(sockets[w].out) =>
                 \E k \in Ids : active_connections[k] = w \/ active_connections'[k] = w]_vars

\* a second connection with the identifier of an Active one has replaced its
\* registration and got the welcome; the socket of the first is still open
C14_Witness ==
    \E t, u \in Tasks :
        /\ t # u /\ tasks[t].kind = "ws" /\ tasks[u].kind = "ws"
        /\ tasks[t].id = tasks[u].id
        /\ tasks[t].pc = "receive" /\ tasks[u].pc = "receive"
        /\ sockets[t].peer = "open" /\ sockets[u].peer = "open"
        /\ sockets[t].out = <<[message |-> Welcome, sender |-> "bot"]>>
        /\ sockets[u].out = <<[message |-> Welcome, sender |-> "bot"]>>
        /\ active_connections[tasks[t].id] = u

\* the step in which client.initialize() of connection t returns False and
\* get_chat_client raises into websocket_endpoint
CreationFails(t) ==
    /\ tasks[t].kind = "ws" /\ Constructing(t)
    /\ tasks'[t].pc \notin {"aenter", "get_prompt"} /\ tasks'[t].client = None

\* C15: when the creation of the Session fails during Connecting, the loop goes
\* to Closing without becoming Active: the registration of the id is removed,
\* no inbound frame is read, and the initialization error is sent to the peer
\* when its socket is open.
C15_CreationFailureSurfaced ==
    [][\A t \in Tasks :
          CreationFails(t) =>
              /\ active_connections'[tasks[t].id] = None
              /\ ~tasks'[t].active /\ tasks'[t].nframes = 0
              /\ tasks'[t].pc \in {"close", "done"}
              /\ sockets[t].peer = "open" =>
                     \E i \in DOMAIN sockets'[t].out :
                         sockets'[t].out[i].message = InitFailed]_vars

\* the HTTP request of task t has been answered after get_chat_client raised
HttpCreationFailed(t) ==
    /\ tasks[t].kind \in {"send", "history", "reset"}
    /\ tasks[t].pc = "done" /\ tasks[t].client = None

\* C16: no failure is dropped silently: a failed creation of the Session on the
\* fallback, history or reset endpoint is answered by a response that is not
\* 2xx (an agent failure is an assistant entry of the history, see C7).
C16_FailuresRepresented ==
    \A t \in Tasks :
        HttpCreationFailed(t) => tasks[t].result.status \notin 200..299

\* C17: a Session is created only by a connect or by an inbound message: the
\* history endpoint and the reset endpoint construct no client and add no entry
\* to the registry.
C17_OnlyConnectOrMessageCreates ==
    \A t \in Tasks : Constructing(t) => tasks[t].kind \in {"ws", "send"}

\* a task without the names of the objects it refers to
Local(tk) == [tk EXCEPT !.client = None, !.closing = None]

\* the step is one of task slot t
Stepping(t) ==
    Local(tasks'[t]) # Local(tasks[t]) \/ sockets'[t].peer # sockets[t].peer

\* the identifier the step of t is for
StepId(t) == IF tasks[t].kind = "none" THEN client_id[t] ELSE tasks[t].id

\* the history of the object a reference names, none for no object
HistoryOf(cl, s) == IF s = None THEN <<"none">> ELSE cl[s].chat_history

\* the step leaves the registration, the registry entry and the histories of
\* identifier b as they were
Untouched(b) ==
    /\ active_connections'[b] = active_connections[b]
    /\ HistoryOf(clients', chat_clients'[b]) = HistoryOf(clients, chat_clients[b])
    /\ \A u \in Tasks :
          tasks[u].kind # "none" /\ tasks[u].id = b =>
              /\ Local(tasks'[u]) = Local(tasks[u]) /\ sockets'[u] = sockets[u]
              /\ HistoryOf(clients', tasks'[u].client) = HistoryOf(clients, tasks[u].client)

\* the step with which task slot t goes on from where it is suspended
ProgressOf(t) ==
    \/ WsAccept(t)
    \/ InitAenter(t)
    \/ \E r \in {"fetched", "empty"} : InitPrompt(t, r)
    \/ WsReceive(t, "m1") \/ WsDisconnect(t)
    \/ AinvokeReturn(t, "a1")
    \/ CloseReturn(t, TRUE)
    \/ Finish(t)

\* task slot u is suspended in the construction of its Session or in an agent call
Suspended(u) == tasks[u].pc \in {"aenter", "get_prompt", "ainvoke"}

\* while a task is suspended in the construction of its Session or in an agent
\* call, every task of another identifier can go on
NeverBlocked ==
    \A t, u \in Tasks :
        /\ Suspended(u) /\ tasks[t].kind # "none" /\ tasks[t].id # tasks[u].id
        => ENABLED ProgressOf(t)

\* C18: a step taken for an identifier leaves the registration, the registry
\* entry and the histories of every other identifier unchanged, and a task can
\* always take its next step, also while a task of another identifier is
\* suspended in the construction of its Session or in an agent call.
C18_IdentifiersIndependent ==
    /\ []NeverBlocked
    /\ [][\A t \in Tasks :
             Stepping(t) => \A b \in Ids \ {StepId(t)} : Untouched(b)]_vars

\* while a task of one identifier is suspended in the agent call, a connection
\* with another identifier has sent a frame and got the welcome and the answer
C18_Witness ==
    \E t, u \in Tasks :
        /\ tasks[t].pc = "ainvoke" /\ tasks[u].kind = "ws"
        /\ tasks[t].id # tasks[u].id
        /\ tasks[u].pc = "receive" /\ tasks[u].nframes = 1
        /\ sockets[u].out = <<[message |-> Welcome, sender |-> "bot"],
                              [message |-> "a1", sender |-> "bot"]>>

\* the welcome frame
WelcomeFrame == [message |-> Welcome, sender |-> "bot"]

\* the number of welcome frames sent on the socket of connection t
Welcomes(t) == Len(SelectSeq(sockets[t].out, LAMBDA f : f = WelcomeFrame))

\* C19 as stated: on a connection whose Session was created, the welcome is
\* pushed exactly once and is the first frame on the connection's own socket,
\* before any inbound frame is read: a connection that waits for its first
\* inbound frame, its peer there, has got the welcome and nothing else.
C19_WelcomeFirstOnOwnChannel ==
    \A t \in Tasks :
        /\ tasks[t].kind = "ws" /\ tasks[t].pc = "receive" /\ tasks[t].nframes = 0
        /\ sockets[t].peer = "open"
        => sockets[t].out # <<>> /\ sockets[t].out[1] = WelcomeFrame /\ Welcomes(t) = 1

\* get_chat_client returns to websocket_endpoint in the step of connection t
ClientReturned(t) ==
    /\ tasks[t].kind = "ws" /\ tasks[t].pc \in {"accept", "get_prompt"}
    /\ tasks'[t].pc \notin {"accept", "aenter", "get_prompt"}
    /\ tasks'[t].client # None

\* C19 (as amended): when get_chat_client has returned, the loop calls
\* manager.send_message once with the welcome, before it reads any inbound
\* frame: one welcome frame goes to the socket registered under the identifier
\* at that time, none when none is registered; the loop reads frames only once
\* that has been done, and no welcome frame is sent in any other step.
C19_OneWelcomePush ==
    [][/\ \A t \in Tasks :
             ClientReturned(t) =>
                 LET w == IF tasks[t].pc = "accept" THEN t
                          ELSE active_connections[tasks[t].id]
                 IN  /\ ~tasks[t].active /\ tasks'[t].nframes = 0
                     /\ IF w # None /\ sockets[w].peer = "open"
                        THEN /\ sockets' = [sockets EXCEPT ![w].out =
                                                Append(@, WelcomeFrame)]
                             /\ tasks'[t].active /\ tasks'[t].pc = "receive"
                        ELSE sockets' = sockets
       /\ \A t \in Tasks :
             tasks[t].kind = "ws" /\ tasks'[t].kind = "ws"
             /\ tasks'[t].nframes # tasks[t].nframes => tasks[t].active
       /\ \A w \in Tasks :
             /\ Len(sockets'[w].out) > Len(sockets[w].out)
             /\ sockets'[w].out[Len(sockets'[w].out)] = WelcomeFrame
             => \E t \in Tasks : ClientReturned(t)]_vars

\* a connection is Active, has read no frame, and has got the welcome and
\* nothing else on its own socket, which is the registered one
C19_Witness ==
    \E t \in Tasks :
        /\ tasks[t].kind = "ws" /\ tasks[t].active /\ tasks[t].pc = "receive"
        /\ tasks[t].nframes = 0
        /\ active_connections[tasks[t].id] = t
        /\ sockets[t].out = <<WelcomeFrame>>

\* the step in which /api/send_message answers the request of task slot t
SendAnswered(t) ==
    tasks'[t].kind = "send" /\ tasks'[t].pc = "done" /\ tasks[t].pc # "done"

\* C20: /api/send_message answers 500 with an error body exactly when the
\* creation of the Session fails (the client cannot be constructed or
\* initialize() returns False); when get_response has run it answers 200 with
\* the text get_response returned, which after a failed agent call is the error
\* message recorded as the last assistant entry.
C20_FallbackStatus ==
    [][\A t \in Tasks :
          SendAnswered(t) =>
              IF tasks[t].pc = "ainvoke"
              THEN LET h == clients'[tasks'[t].client].chat_history IN
                   /\ tasks'[t].result.status = 200
                   /\ tasks'[t].result.kind = "response"
                   /\ h[Len(h)] = [role |-> "assistant",
                                   content |-> tasks'[t].result.text]
              ELSE /\ tasks[t].pc \in {"idle", "aenter"}
                   /\ tasks'[t].client = None
                   /\ tasks'[t].result.status = 500
                   /\ tasks'[t].result.kind = "error"]_vars

\* a request whose agent call failed has been answered 200 with the error text
C20_Witness ==
    \E t \in Tasks :
        /\ tasks[t].kind = "send" /\ tasks[t].pc = "done"
        /\ tasks[t].result.status = 200
        /\ tasks[t].result.text = "Error processing your request: boom"

\* sequence p is a prefix of sequence h
IsPrefix(p, h) == Len(p) <= Len(h) /\ \A i \in 1..Len(p) : h[i] = p[i]

\* the step is `client.chat_history = []` of reset_chat
ResetStep ==
    \E t \in Tasks :
        /\ tasks'[t].kind = "reset" /\ tasks'[t].pc = "done" /\ tasks[t].pc # "done"
        /\ tasks'[t].client # None

\* C21: the history of a Session is append-only between resets: in every step
\* that is not a reset, the history of every Session a task holds, or gets from
\* the registry in the step, has its previous history as a prefix.
C21_AppendOnly ==
    [][~ResetStep =>
          \A t \in Tasks :
              tasks'[t].client # None =>
                  IF tasks[t].client # None
                  THEN IsPrefix(clients[tasks[t].client].chat_history,
                                clients'[tasks'[t].client].chat_history)
                  ELSE tasks[t].kind = "none" /\ chat_clients[client_id[t]] # None =>
                           IsPrefix(clients[chat_clients[client_id[t]]].chat_history,
                                    clients'[tasks'[t].client].chat_history)]_vars

\* two calls on one Session have overlapped and the first has been answered:
\* the history has both user entries and then the answer
C21_Witness ==
    \E s \in Refs :
        LET h == clients[s].chat_history IN
        /\ Len(h) = 3
        /\ h[1].role = "user" /\ h[2].role = "user" /\ h[3].role = "assistant"

\* the prompt of every agent call in flight is the system prompt of its
\* Session, the separator and the user's text
PromptComposed ==
    \A t \in Tasks :
        tasks[t].pc = "ainvoke" =>
            tasks[t].full_prompt = <<clients[tasks[t].client].system_prompt,
                                     "\n\nUser Query: ", tasks[t].user_message>>

\* C22: the system prompt of a Session does not change once get_chat_client has
\* stored and returned it: no step changes the system prompt of a Session that
\* a task holds or gets from the registry, and every prompt sent to the agent
\* is that system prompt, the separator and the user's text.
C22_SystemPromptImmutable ==
    [][/\ PromptComposed /\ PromptComposed'
       /\ \A t \in Tasks :
             tasks'[t].client # None /\ ~Constructing(t) =>
                 IF tasks[t].client # None
                 THEN clients'[tasks'[t].client].system_prompt =
                          clients[tasks[t].client].system_prompt
                 ELSE tasks[t].kind = "none" /\ chat_clients[client_id[t]] # None =>
                          clients'[tasks'[t].client].system_prompt =
                              clients[chat_clients[client_id[t]]].system_prompt]_vars

\* a call is in flight on a Session that has the fetched prompt and three
\* entries, with a prompt made of the fetched prompt and the call's own text
C22_Witness ==
    \E t \in Tasks :
        /\ tasks[t].pc = "ainvoke"
        /\ chat_clients[tasks[t].id] = tasks[t].client
        /\ Len(clients[tasks[t].client].chat_history) = 3
        /\ clients[tasks[t].client].system_prompt = FetchedPrompt
        /\ tasks[t].full_prompt = <<FetchedPrompt, "\n\nUser Query: ", "m2">>

\* the loop of connection t has ended
Closed(t) == tasks[t].pc = "done"

\* C23: when the event loop is fair and the awaited calls return, every
\* connection whose peer has gone or whose transport has failed reaches Closed;
\* a loop that runs an except clause reads no further frame, and a loop that is
\* Closed takes no step but its disposal.
C23_ClosedReached ==
    /\ \A t \in Tasks :
          (/\ tasks[t].kind = "ws"
           /\ sockets[t].peer = "closed" \/ tasks[t].handler # "none") ~> Closed(t)
    /\ [](\A t \in Tasks : tasks[t].handler # "none" => tasks[t].pc \in {"close", "done"})
    /\ [][\A t \in Tasks :
             Closed(t) => \/ Local(tasks'[t]) = Local(tasks[t])
                          \/ tasks'[t].kind = "none"]_vars

\* a connection that had read a frame and lost its peer is Closed
C23_Witness ==
    \E t \in Tasks :
        /\ tasks[t].kind = "ws" /\ Closed(t) /\ tasks[t].active
        /\ tasks[t].nframes = 1 /\ sockets[t].peer = "closed"
        /\ tasks[t].handler = "inner"

\* a WebSocket connection of identifier k exists, whose teardown destroys the
\* Session of k
Owned(k) == \E t \in Tasks : tasks[t].kind = "ws" /\ tasks[t].id = k

\* C24: every Session that was created is eventually destroyed; one that is
\* registered while no connection of its identifier exists is destroyed (or
\* taken over by a connection that will destroy it) in every fair run.
C24_SessionsDestroyed ==
    \A k \in Ids :
        (chat_clients[k] # None /\ ~Owned(k)) ~> (chat_clients[k] = None \/ Owned(k))

\* C25: a tool-server connection opened during construction is released; when
\* create_react_agent raises after __aenter__ returned, the client that was
\* being constructed has no open connection once get_chat_client has reported
\* the failure.
C25_ConnectionReleasedOnFailure ==
    \A t \in Tasks :
        tasks[t].pc = "aenter" =>
            \A st \in initialize_agent_raises(Cur, t) :
                /\ st.tk[t].client = None
                /\ st.cl[tasks[t].client].mcp_client # "open"

\* the loop of connection t is waiting for a frame or for the agent
Active(t) ==
    /\ tasks[t].kind = "ws" /\ tasks[t].active
    /\ tasks[t].handler = "none" /\ tasks[t].pc \in {"receive", "ainvoke"}

\* C26: while the loop of a connection is Active, its identifier has a channel
\* registered, and the client the loop holds is the one registered for the
\* identifier and has not been closed nor is being closed.
C26_ActiveHoldsLiveSession ==
    \A t \in Tasks :
        Active(t) =>
            /\ active_connections[tasks[t].id] # None
            /\ chat_clients[tasks[t].id] = tasks[t].client
            /\ clients[tasks[t].client].close_calls = 0
            /\ clients[tasks[t].client].mcp_client # "closed"

\* connection t gets the result of the agent call and pushes its reply
Replies(t) ==
    /\ tasks[t].kind = "ws" /\ tasks[t].pc = "ainvoke"
    /\ tasks'[t].pc # "ainvoke"

\* the reply that connection t pushes in this step
ReplyOf(t) ==
    LET h == clients'[tasks'[t].client].chat_history IN Frame(h[Len(h)].content)

\* C27 as stated: the reply to a frame read from a channel is written to that
\* channel whenever it is still open, and to no other channel.
C27_ReplyOnOwnChannel ==
    [][\A t \in Tasks :
          Replies(t) =>
              /\ sockets[t].peer = "open" =>
                     sockets'[t].out = Append(sockets[t].out, ReplyOf(t))
              /\ \A w \in Tasks \ {t} : sockets'[w] = sockets[w]]_vars

\* C27 (as amended): the reply is written to the channel registered under the
\* connection's identifier and to no other; it is written to the connection's
\* own channel whenever that is the registered one and is open.
C27_ReplyOnRegisteredChannel ==
    [][\A t \in Tasks :
          Replies(t) =>
              /\ active_connections[tasks[t].id] = t /\ sockets[t].peer = "open" =>
                     sockets'[t].out = Append(sockets[t].out, ReplyOf(t))
              /\ \A w \in Tasks :
                     sockets'[w] # sockets[w] =>
                         /\ w = active_connections[tasks[t].id]
                         /\ sockets'[w].out = Append(sockets[w].out, ReplyOf(t))]_vars

\* beside another open connection of the same identifier, a connection that is
\* the registered one has got the answer to its frame, and the other has not
C27_Witness ==
    \E t, u \in Tasks :
        /\ t # u
        /\ tasks[t].kind = "ws" /\ tasks[u].kind = "ws" /\ tasks[u].id = tasks[t].id
        /\ sockets[t].peer = "open" /\ sockets[u].peer = "open"
        /\ tasks[u].active /\ tasks[u].pc = "receive"
        /\ active_connections[tasks[t].id] = t
        /\ tasks[t].pc = "receive" /\ tasks[t].nframes = 1
        /\ sockets[t].out # <<>>
        /\ sockets[t].out[Len(sockets[t].out)] = Frame("a2")
        /\ \A i \in 1..Len(sockets[u].out) : sockets[u].out[i] # Frame("a2")

\* C28: close() is invoked at most once on a client, and no call of
\* cleanup_chat_client raises (neither into the outer except clause nor out of
\* the endpoint), also when two calls for one identifier overlap.
C28_ClosedAndRemovedOnce ==
    /\ \A s \in Refs : clients[s].close_calls <= 1
    /\ \A t \in Tasks : tasks[t].handler # "raised"
    /\ \A t \in Tasks : tasks[t].pc = "close" => ~KeyMissing(Cur, tasks[t].id)

\* C29: when __aexit__ raises inside close(), the error is swallowed: the call
\* of cleanup_chat_client that awaited close() deletes the entry of its
\* identifier and returns without raising.
C29_CloseFailureSwallowed ==
    [][\A t \in Tasks :
          CloseReturn(t, FALSE) =>
              /\ chat_clients'[tasks[t].id] = None
              /\ tasks'[t].pc = "done"
              /\ tasks'[t].handler = tasks[t].handler]_vars

\* C30: whatever get_prompt gives, initialize() returns True and the client is
\* stored under its identifier; its system prompt is the fetched one when the
\* fetch gave a prompt, and the configured default when the fetch gave nothing
\* or raised.
C30_PromptFetchNeverFails ==
    [][\A t \in Tasks, r \in {"fetched", "empty", "error"} :
          InitPrompt(t, r) =>
              LET s == chat_clients'[tasks[t].id] IN
              /\ s # None
              /\ clients'[s].agent /\ clients'[s].mcp_client = "open"
              /\ clients[tasks[t].client].system_prompt = DefaultPrompt
              /\ clients'[s].system_prompt =
                     IF r = "fetched" THEN FetchedPrompt ELSE DefaultPrompt
              /\ tasks'[t].result.status # 500]_vars

\* a connection is Active on a stored client that kept the default prompt
\* because the tool server gave none
C30_Witness ==
    \E t \in Tasks :
        /\ Active(t) /\ server_prompt = "none"
        /\ chat_clients[tasks[t].id] = tasks[t].client
        /\ clients[tasks[t].client].system_prompt = DefaultPrompt
        /\ clients[tasks[t].client].agent

\* the client on which task t calls get_response in this step, as it is before
\* the step: the one the task holds, or for a request that starts, the one
\* registered under its identifier
CalleeBefore(t) ==
    IF tasks[t].client # None THEN tasks[t].client ELSE chat_clients[client_id[t]]

\* task t calls get_response in this step
CallsGetResponse(t) == tasks[t].pc # "ainvoke" /\ tasks'[t].pc = "ainvoke"

\* the text of the 'Agent not initialized' branch has been returned to no one
NeverNotInitialized ==
    /\ \A t \in Tasks : tasks[t].result.text # NotInitialized
    /\ \A w \in Tasks : \A i \in 1..Len(sockets[w].out) :
           sockets[w].out[i].message # NotInitialized

\* C31: every client stored in chat_clients, and every client a task got from
\* chat_clients, has an agent; the 'Agent not initialized' text is never
\* returned; and every call of get_response appends the user's entry to the
\* history of the client it is called on.
C31_StoredSessionsHaveAgent ==
    /\ [](/\ \A k \in Ids : chat_clients[k] # None => clients[chat_clients[k]].agent
          /\ \A t \in Tasks :
                 tasks[t].client # None /\ ~Constructing(t) =>
                     clients[tasks[t].client].agent
          /\ NeverNotInitialized)
    /\ [][\A t \in Tasks :
             CallsGetResponse(t) =>
                 /\ CalleeBefore(t) # None
                 /\ clients'[tasks'[t].client].chat_history =
                        Append(clients[CalleeBefore(t)].chat_history,
                               Entry("user", tasks'[t].user_message))]_vars

\* a request took its client from the registry and its call of get_response
\* has put the user's entry after an earlier exchange
C31_Witness ==
    \E t \in Tasks :
        /\ tasks[t].kind = "send" /\ tasks[t].pc = "ainvoke"
        /\ chat_clients[tasks[t].id] = tasks[t].client
        /\ clients[tasks[t].client].agent
        /\ Len(clients[tasks[t].client].chat_history) = 3
        /\ clients[tasks[t].client].chat_history[3] = Entry("user", tasks[t].user_message)
        /\ clients[tasks[t].client].chat_history[2].role = "assistant"
        /\ NeverNotInitialized

====
